---- MODULE Spec2Model ----
(* A state-machine model of snapweb.py: the page loader (load_page), the   *)
(* PDF exporter (save_webpage_as_pdf) and the CLI dispatcher (main).       *)
(* Strings are sequences of one-character strings.  The browser engine is   *)
(* an external collaborator: what it will do in a run (which call raises,   *)
(* how long the images take, the page title, the page geometry) is fixed in *)
(* the initial state and the program's steps are deterministic from there.  *)
EXTENDS Integers, Sequences, FiniteSets, TLC

VARIABLES
    pc,             \* position of the run in the program
    entry,          \* "main" (the script is run) or "save_webpage_as_pdf" (called directly)
    output_format,  \* main's output_format argument
    fmt,            \* main's local fmt
    branch,         \* the if/elif/else branch main took
    output_pdf,     \* save_webpage_as_pdf's output_pdf (argument, then local)
    output_pdf_arg, \* the output_pdf the caller passed
    p,              \* the automation engine: "none", "running", "stopped"
    browser,        \* the browser: "none", "open", "closed"
    page,           \* the page: "none", "open"
    scrollTop,      \* document.scrollingElement.scrollTop
    scrollHeight,   \* document.scrollingElement.scrollHeight
    scrollSteps,    \* number of scrollBy calls made by the auto-scroll script
    title,          \* load_page's title
    safe_title,     \* load_page's safe_title
    pdfArgs,        \* the arguments of the page.pdf call, once made
    output_file,    \* the value save_webpage_as_pdf returned
    files,          \* the files written
    stdout,         \* the lines printed
    raised,         \* the exception in flight or that ended the run
    exit_status,    \* the process exit status
    effects,        \* every external call and print of the run, in order
    failAt,         \* browser behaviour: the call that raises
    imageLoadMs,    \* browser behaviour: when every image is complete
    pageTitle,      \* browser behaviour: the document title
    innerHeight,    \* browser behaviour: window.innerHeight
    pageHeight,     \* browser behaviour: the scroll height of the loaded page
    growBy,         \* browser behaviour: content added on each scroll advance
    prev            \* the previous invocation (two-invocation specification)

vars == <<pc, entry, output_format, fmt, branch, output_pdf, output_pdf_arg, p, browser, page,
          scrollTop, scrollHeight, scrollSteps, title, safe_title, pdfArgs,
          output_file, files, stdout, raised, exit_status, effects, failAt,
          imageLoadMs, pageTitle, innerHeight, pageHeight, growBy, prev>>

runVars == <<p, browser, page, scrollTop, scrollHeight, scrollSteps, title,
             safe_title, pdfArgs, output_file, files, stdout>>
worldVars == <<failAt, imageLoadMs, pageTitle, innerHeight, pageHeight, growBy>>
argVars == <<entry, output_format, output_pdf_arg, prev>>

----------------------------------------------------------------------------
(* Bounds *)
MaxCasePos == 2        \* letters of a format word that may be upper-cased
MaxTitleLen == 2       \* length of a page title
MaxExtra == 3          \* content below the viewport, in half scroll steps
MaxScrollHeight == 600 \* cap on the height of a growing page

(* Program constants *)
distance == 100
timeout == 10000

None == <<"None">>
NoRun == [output_format |-> None, effects |-> <<>>, exit_status |-> -1,
          raised |-> "none", branch |-> "none"]

----------------------------------------------------------------------------
(* str.lower *)
UpperLetters == <<"A","B","C","D","E","F","G","H","I","J","K","L","M",
                  "N","O","P","Q","R","S","T","U","V","W","X","Y","Z">>
LowerLetters == <<"a","b","c","d","e","f","g","h","i","j","k","l","m",
                  "n","o","p","q","r","s","t","u","v","w","x","y","z">>

ToLowerChar(c) ==
    IF \E i \in 1..26 : UpperLetters[i] = c
    THEN LowerLetters[CHOOSE i \in 1..26 : UpperLetters[i] = c]
    ELSE c

ToUpperChar(c) ==
    IF \E i \in 1..26 : LowerLetters[i] = c
    THEN UpperLetters[CHOOSE i \in 1..26 : LowerLetters[i] = c]
    ELSE c

LowerFirstOnly(s) == [i \in 1..Len(s) |-> IF i = 1 THEN ToLowerChar(s[i]) ELSE s[i]]

lower(s) == [i \in 1..Len(s) |-> ToLowerChar(s[i])]

(* re.sub(r'[\\/*?:"<>|]', "", title) *)
IllegalChars == {"\\", "/", "*", "?", ":", "\"", "<", ">", "|"}

RECURSIVE SanitizeNoBackslash(_)
SanitizeNoBackslash(t) ==
    IF t = <<>> THEN <<>>
    ELSE IF Head(t) \in (IllegalChars \ {"\\"}) THEN SanitizeNoBackslash(Tail(t))
    ELSE <<Head(t)>> \o SanitizeNoBackslash(Tail(t))

RECURSIVE Sanitize(_)
Sanitize(t) ==
    IF t = <<>> THEN <<>>
    ELSE IF Head(t) \in IllegalChars THEN Sanitize(Tail(t))
    ELSE <<Head(t)>> \o Sanitize(Tail(t))

PdfExt == <<".", "p", "d", "f">>

(* the f-string of line 56 *)
DerivedPathRaw(safe, raw) == raw \o PdfExt
DerivedPath(safe, raw) == safe \o PdfExt

(* the test of line 55 *)
IsNone(x) == x = None

(* the if/elif/else chain of main *)
DispatchNoEpub(f) ==
    IF f = <<"p","d","f">> THEN "pdf"
    ELSE IF f = <<"m","a","r","k","d","o","w","n">> THEN "markdown"
    ELSE "unsupported"

Dispatch(f) ==
    IF f = <<"p","d","f">> THEN "pdf"
    ELSE IF f = <<"m","a","r","k","d","o","w","n">> THEN "markdown"
    ELSE IF f = <<"e","p","u","b">> THEN "epub"
    ELSE "unsupported"

(* the loop condition of the auto-scroll script *)
NotAtBottomLeq(top, inner, height) == top + inner =< height
NotAtBottom(top, inner, height) == top + inner < height

Min(a, b) == IF a < b THEN a ELSE b
Max(a, b) == IF a > b THEN a ELSE b

(* scrollingElement.scrollBy(0, d): the browser clamps to the scroll range *)
ScrollBy(top, inner, height, d) == Min(top + d, Max(0, height - inner))

----------------------------------------------------------------------------
(* Inputs *)
BaseFormats == { <<"p","d","f">>, <<"m","a","r","k","d","o","w","n">>,
                 <<"e","p","u","b">>, <<"d","o","c","x">>, <<>> }

CaseVariants(w) ==
    { [i \in 1..Len(w) |-> IF i \in S THEN ToUpperChar(w[i]) ELSE w[i]] :
        S \in SUBSET (1..Min(Len(w), MaxCasePos)) }

FormatStrings == UNION { CaseVariants(w) : w \in BaseFormats }

SeqsUpTo(S, n) == UNION { [1..k -> S] : k \in 0..n }

TitleChars == {"a", "/"}
Titles == SeqsUpTo(TitleChars, MaxTitleLen)
AllTitleChars == IllegalChars \cup {"a", "."}
SanitizeTitles == SeqsUpTo(AllTitleChars, MaxTitleLen)

ExplicitPaths == { <<"o">>, <<>> }
Failures == {"none", "goto", "evaluate", "pdf"}
ImageLoadTimes == {0, 15000}
InnerHeights == {100}
Extras == { 50 * k : k \in 0..MaxExtra }
Growths == {0, 50, 100}

E(op, res, arg) == [op |-> op, res |-> res, arg |-> arg]
Line(kind, format, arg) == [kind |-> kind, format |-> format, arg |-> arg]
NoPdf == [path |-> None, header |-> None, format |-> "none"]

----------------------------------------------------------------------------
(* The state of a fresh process, before main or save_webpage_as_pdf runs *)
Fresh ==
    /\ fmt = None
    /\ branch = "none"
    /\ p = "none"
    /\ browser = "none"
    /\ page = "none"
    /\ scrollTop = 0
    /\ scrollHeight = 0
    /\ scrollSteps = 0
    /\ title = None
    /\ safe_title = None
    /\ pdfArgs = NoPdf
    /\ output_file = None
    /\ files = {}
    /\ stdout = <<>>
    /\ raised = "none"
    /\ exit_status = -1
    /\ effects = <<>>
    /\ prev = NoRun

World ==
    /\ failAt \in Failures
    /\ imageLoadMs \in ImageLoadTimes
    /\ pageTitle \in Titles
    /\ innerHeight \in InnerHeights
    /\ pageHeight \in { innerHeight + e : e \in Extras }
    /\ growBy \in Growths

Init ==
    /\ Fresh
    /\ World
    /\ \/ /\ entry = "main"
          /\ pc = "start"
          /\ output_format \in FormatStrings
          /\ output_pdf = None
          /\ output_pdf_arg = None
       \/ /\ entry = "save_webpage_as_pdf"
          /\ pc = "load"
          /\ output_format = None
          /\ output_pdf \in ExplicitPaths \cup {None}
          /\ output_pdf_arg = output_pdf

----------------------------------------------------------------------------
(* main *)
MainPdf ==
    /\ pc = "start"
    /\ fmt' = lower(output_format)
    /\ Dispatch(fmt') = "pdf"
    /\ branch' = "pdf"
    /\ output_pdf' = None
    /\ pc' = "load"
    /\ UNCHANGED <<runVars, raised, exit_status, effects, worldVars, argVars>>

MainMarkdown ==
    /\ pc = "start"
    /\ fmt' = lower(output_format)
    /\ Dispatch(fmt') = "markdown"
    /\ branch' = "markdown"
    /\ raised' = "NameError"
    /\ effects' = Append(effects, E("save_webpage_as_markdown", "raise", <<>>))
    /\ pc' = "raised"
    /\ UNCHANGED <<runVars, output_pdf, exit_status, worldVars, argVars>>

MainEpub ==
    /\ pc = "start"
    /\ fmt' = lower(output_format)
    /\ Dispatch(fmt') = "epub"
    /\ branch' = "epub"
    /\ raised' = "NameError"
    /\ effects' = Append(effects, E("save_webpage_as_epub", "raise", <<>>))
    /\ pc' = "raised"
    /\ UNCHANGED <<runVars, output_pdf, exit_status, worldVars, argVars>>

(* variant: the else branch without its exit(1) *)
MainUnsupportedNoExit ==
    /\ pc = "start"
    /\ fmt' = lower(output_format)
    /\ Dispatch(fmt') = "unsupported"
    /\ branch' = "unsupported"
    /\ stdout' = Append(stdout, Line("unsupported", "none", output_format))
    /\ effects' = Append(effects, E("print", "unsupported", output_format))
    /\ exit_status' = 0
    /\ pc' = "exited"
    /\ UNCHANGED <<p, browser, page, scrollTop, scrollHeight, scrollSteps, title,
                   safe_title, pdfArgs, output_file, files, output_pdf, raised,
                   worldVars, argVars>>

MainUnsupported ==
    /\ pc = "start"
    /\ fmt' = lower(output_format)
    /\ Dispatch(fmt') = "unsupported"
    /\ branch' = "unsupported"
    /\ stdout' = Append(stdout, Line("unsupported", "none", output_format))
    /\ effects' = effects \o << E("print", "unsupported", output_format),
                                E("exit", "1", <<>>) >>
    /\ raised' = "SystemExit"
    /\ exit_status' = 1
    /\ pc' = "exited"
    /\ UNCHANGED <<p, browser, page, scrollTop, scrollHeight, scrollSteps, title,
                   safe_title, pdfArgs, output_file, files, output_pdf,
                   worldVars, argVars>>

(* variant: the confirmation built from the raw title *)
PrintSavedRawTitle ==
    /\ pc = "confirm"
    /\ stdout' = Append(stdout, Line("saved", "PDF", title \o PdfExt))
    /\ effects' = Append(effects, E("print", "PDF saved as", title \o PdfExt))
    /\ exit_status' = 0
    /\ pc' = "exited"
    /\ UNCHANGED <<p, browser, page, scrollTop, scrollHeight, scrollSteps, title,
                   safe_title, pdfArgs, output_file, files, output_pdf, fmt,
                   branch, raised, worldVars, argVars>>

(* main, after save_webpage_as_pdf returned: line 95, then the script ends *)
PrintSaved ==
    /\ pc = "confirm"
    /\ stdout' = Append(stdout, Line("saved", "PDF", output_file))
    /\ effects' = Append(effects, E("print", "PDF saved as", output_file))
    /\ exit_status' = 0
    /\ pc' = "exited"
    /\ UNCHANGED <<p, browser, page, scrollTop, scrollHeight, scrollSteps, title,
                   safe_title, pdfArgs, output_file, files, output_pdf, fmt,
                   branch, raised, worldVars, argVars>>

(* an exception nobody catches ends the interpreter with a traceback *)
Traceback ==
    /\ pc = "raised"
    /\ entry = "main"
    /\ exit_status' = 1
    /\ pc' = "exited"
    /\ UNCHANGED <<runVars, output_pdf, fmt, branch, raised, effects,
                   worldVars, argVars>>

----------------------------------------------------------------------------
(* load_page *)
mainVars == <<fmt, branch, exit_status>>

StartEngine ==
    /\ pc = "load"
    /\ p' = "running"
    /\ effects' = Append(effects, E("start", "ok", <<>>))
    /\ pc' = "launch"
    /\ UNCHANGED <<browser, page, scrollTop, scrollHeight, scrollSteps, title,
                   safe_title, pdfArgs, output_file, files, stdout, output_pdf,
                   raised, mainVars, worldVars, argVars>>

LaunchBrowser ==
    /\ pc = "launch"
    /\ browser' = "open"
    /\ effects' = Append(effects, E("launch", "ok", <<>>))
    /\ pc' = "new_page"
    /\ UNCHANGED <<p, page, scrollTop, scrollHeight, scrollSteps, title,
                   safe_title, pdfArgs, output_file, files, stdout, output_pdf,
                   raised, mainVars, worldVars, argVars>>

NewPage ==
    /\ pc = "new_page"
    /\ page' = "open"
    /\ effects' = Append(effects, E("new_page", "ok", <<>>))
    /\ pc' = "goto"
    /\ UNCHANGED <<p, browser, scrollTop, scrollHeight, scrollSteps, title,
                   safe_title, pdfArgs, output_file, files, stdout, output_pdf,
                   raised, mainVars, worldVars, argVars>>

GotoOk ==
    /\ pc = "goto"
    /\ failAt # "goto"
    /\ scrollTop' = 0
    /\ scrollHeight' = pageHeight
    /\ effects' = Append(effects, E("goto", "ok", <<>>))
    /\ pc' = "evaluate"
    /\ UNCHANGED <<p, browser, page, scrollSteps, title,
                   safe_title, pdfArgs, output_file, files, stdout, output_pdf,
                   raised, mainVars, worldVars, argVars>>

GotoRaise ==
    /\ pc = "goto"
    /\ failAt = "goto"
    /\ raised' = "Error"
    /\ effects' = Append(effects, E("goto", "raise", <<>>))
    /\ pc' = "raised"
    /\ UNCHANGED <<runVars, output_pdf, mainVars, worldVars, argVars>>

(* one iteration of the while loop of the auto-scroll script *)
ScrollStep ==
    /\ pc = "evaluate"
    /\ NotAtBottom(scrollTop, innerHeight, scrollHeight)
    /\ scrollHeight + growBy =< MaxScrollHeight
    /\ scrollTop' = ScrollBy(scrollTop, innerHeight, scrollHeight, distance)
    /\ scrollHeight' = IF scrollTop' > scrollTop THEN scrollHeight + growBy
                                                 ELSE scrollHeight
    /\ scrollSteps' = scrollSteps + 1
    /\ UNCHANGED <<pc, p, browser, page, title, safe_title, pdfArgs,
                   output_file, files, stdout, output_pdf, raised, effects,
                   mainVars, worldVars, argVars>>

(* the loop condition is false: the script ends and page.evaluate returns *)
ScrollExit ==
    /\ pc = "evaluate"
    /\ failAt # "evaluate"
    /\ ~NotAtBottom(scrollTop, innerHeight, scrollHeight)
    /\ effects' = Append(effects, E("evaluate", "ok", <<>>))
    /\ pc' = "wait"
    /\ UNCHANGED <<runVars, output_pdf, raised, mainVars, worldVars, argVars>>

ScrollRaise ==
    /\ pc = "evaluate"
    /\ failAt = "evaluate"
    /\ raised' = "Error"
    /\ effects' = Append(effects, E("evaluate", "raise", <<>>))
    /\ pc' = "raised"
    /\ UNCHANGED <<runVars, output_pdf, mainVars, worldVars, argVars>>

WaitImagesOk ==
    /\ pc = "wait"
    /\ imageLoadMs < timeout
    /\ effects' = Append(effects, E("wait_for_function", "ok", <<>>))
    /\ pc' = "title"
    /\ UNCHANGED <<runVars, output_pdf, raised, mainVars, worldVars, argVars>>

(* variant: the timeout swallowed, the conversion carries on *)
WaitImagesTimeoutCaught ==
    /\ pc = "wait"
    /\ imageLoadMs >= timeout
    /\ effects' = Append(effects, E("wait_for_function", "raise", <<>>))
    /\ pc' = "title"
    /\ UNCHANGED <<runVars, output_pdf, raised, mainVars, worldVars, argVars>>

WaitImagesTimeout ==
    /\ pc = "wait"
    /\ imageLoadMs >= timeout
    /\ raised' = "TimeoutError"
    /\ effects' = Append(effects, E("wait_for_function", "raise", <<>>))
    /\ pc' = "raised"
    /\ UNCHANGED <<runVars, output_pdf, mainVars, worldVars, argVars>>

(* lines 39-40 *)
CaptureTitle ==
    /\ pc = "title"
    /\ title' = pageTitle
    /\ safe_title' = Sanitize(title')
    /\ effects' = Append(effects, E("title", "ok", title'))
    /\ pc' = "content"
    /\ UNCHANGED <<p, browser, page, scrollTop, scrollHeight, scrollSteps,
                   pdfArgs, output_file, files, stdout, output_pdf, raised,
                   mainVars, worldVars, argVars>>

(* lines 43-45 *)
CaptureContent ==
    /\ pc = "content"
    /\ effects' = Append(effects, E("content", "ok", <<>>))
    /\ pc' = "derive"
    /\ UNCHANGED <<runVars, output_pdf, raised, mainVars, worldVars, argVars>>

----------------------------------------------------------------------------
(* save_webpage_as_pdf, after load_page returned *)
DerivePath ==
    /\ pc = "derive"
    /\ output_pdf' = IF IsNone(output_pdf) THEN DerivedPath(safe_title, title)
                                           ELSE output_pdf
    /\ pc' = "pdf"
    /\ UNCHANGED <<runVars, raised, effects, mainVars, worldVars, argVars>>

PdfOk ==
    /\ pc = "pdf"
    /\ failAt # "pdf"
    /\ pdfArgs' = [path |-> output_pdf, header |-> title, format |-> "Letter"]
    /\ files' = files \cup {output_pdf}
    /\ effects' = Append(effects, E("pdf", "ok", output_pdf))
    /\ pc' = "close"
    /\ UNCHANGED <<p, browser, page, scrollTop, scrollHeight, scrollSteps,
                   title, safe_title, output_file, stdout, output_pdf, raised,
                   mainVars, worldVars, argVars>>

(* variant: the print call inside try/finally *)
PdfRaiseFinally ==
    /\ pc = "pdf"
    /\ failAt = "pdf"
    /\ pdfArgs' = [path |-> output_pdf, header |-> title, format |-> "Letter"]
    /\ raised' = "Error"
    /\ browser' = "closed"
    /\ page' = "none"
    /\ p' = "stopped"
    /\ effects' = effects \o << E("pdf", "raise", output_pdf),
                                E("close", "ok", <<>>), E("stop", "ok", <<>>) >>
    /\ pc' = "raised"
    /\ UNCHANGED <<scrollTop, scrollHeight, scrollSteps,
                   title, safe_title, output_file, files, stdout, output_pdf,
                   mainVars, worldVars, argVars>>

PdfRaise ==
    /\ pc = "pdf"
    /\ failAt = "pdf"
    /\ pdfArgs' = [path |-> output_pdf, header |-> title, format |-> "Letter"]
    /\ raised' = "Error"
    /\ effects' = Append(effects, E("pdf", "raise", output_pdf))
    /\ pc' = "raised"
    /\ UNCHANGED <<p, browser, page, scrollTop, scrollHeight, scrollSteps,
                   title, safe_title, output_file, files, stdout, output_pdf,
                   mainVars, worldVars, argVars>>

CloseBrowser ==
    /\ pc = "close"
    /\ browser' = "closed"
    /\ page' = "none"
    /\ effects' = Append(effects, E("close", "ok", <<>>))
    /\ pc' = "stop"
    /\ UNCHANGED <<p, scrollTop, scrollHeight, scrollSteps, title, safe_title,
                   pdfArgs, output_file, files, stdout, output_pdf, raised,
                   mainVars, worldVars, argVars>>

StopEngine ==
    /\ pc = "stop"
    /\ p' = "stopped"
    /\ effects' = Append(effects, E("stop", "ok", <<>>))
    /\ pc' = "return"
    /\ UNCHANGED <<browser, page, scrollTop, scrollHeight, scrollSteps, title,
                   safe_title, pdfArgs, output_file, files, stdout, output_pdf,
                   raised, mainVars, worldVars, argVars>>

(* line 89, and line 94 when main is the caller *)
ReturnPath ==
    /\ pc = "return"
    /\ output_file' = output_pdf
    /\ pc' = IF entry = "main" THEN "confirm" ELSE "returned"
    /\ UNCHANGED <<p, browser, page, scrollTop, scrollHeight, scrollSteps,
                   title, safe_title, pdfArgs, files, stdout, output_pdf,
                   raised, effects, mainVars, worldVars, argVars>>

----------------------------------------------------------------------------
Next ==
    \/ MainPdf \/ MainMarkdown \/ MainEpub \/ MainUnsupported
    \/ StartEngine \/ LaunchBrowser \/ NewPage
    \/ GotoOk \/ GotoRaise
    \/ ScrollStep \/ ScrollExit \/ ScrollRaise
    \/ WaitImagesOk \/ WaitImagesTimeout
    \/ CaptureTitle \/ CaptureContent
    \/ DerivePath \/ PdfOk \/ PdfRaise
    \/ CloseBrowser \/ StopEngine \/ ReturnPath
    \/ PrintSaved \/ Traceback

Spec == Init /\ [][Next]_vars

(* The program is invoked a second time, on the same page and with the     *)
(* browser behaving the same, with any format string.                      *)
Reinvoke ==
    /\ pc = "exited"
    /\ prev = NoRun
    /\ prev' = [output_format |-> output_format, effects |-> effects,
                exit_status |-> exit_status, raised |-> raised,
                branch |-> branch]
    /\ output_format' \in FormatStrings
    /\ pc' = "start"
    /\ fmt' = None
    /\ branch' = "none"
    /\ output_pdf' = None
    /\ p' = "none"
    /\ browser' = "none"
    /\ page' = "none"
    /\ scrollTop' = 0
    /\ scrollHeight' = 0
    /\ scrollSteps' = 0
    /\ title' = None
    /\ safe_title' = None
    /\ pdfArgs' = NoPdf
    /\ output_file' = None
    /\ stdout' = <<>>
    /\ raised' = "none"
    /\ exit_status' = -1
    /\ effects' = <<>>
    /\ UNCHANGED <<entry, output_pdf_arg, files, worldVars>>

NextPair == Next \/ Reinvoke

SpecPair == Init /\ [][NextPair]_vars

(* The title capture of load_page on every title over the illegal          *)
(* characters and two legal ones: the state in which load_page reaches     *)
(* line 39 of a run that is otherwise fixed.                               *)
InitSanitize ==
    /\ entry = "save_webpage_as_pdf"
    /\ output_format = None
    /\ output_pdf = None
    /\ output_pdf_arg = None
    /\ pc = "title"
    /\ fmt = None
    /\ branch = "none"
    /\ p = "running"
    /\ browser = "open"
    /\ page = "open"
    /\ scrollTop = 0
    /\ scrollHeight = 100
    /\ scrollSteps = 0
    /\ title = None
    /\ safe_title = None
    /\ pdfArgs = NoPdf
    /\ output_file = None
    /\ files = {}
    /\ stdout = <<>>
    /\ raised = "none"
    /\ exit_status = -1
    /\ effects = << E("start", "ok", <<>>), E("launch", "ok", <<>>),
                    E("new_page", "ok", <<>>), E("goto", "ok", <<>>),
                    E("evaluate", "ok", <<>>), E("wait_for_function", "ok", <<>>) >>
    /\ prev = NoRun
    /\ failAt = "none"
    /\ imageLoadMs = 0
    /\ pageTitle \in SanitizeTitles
    /\ innerHeight = 100
    /\ pageHeight = 100
    /\ growBy = 0

SpecSanitize == InitSanitize /\ [][CaptureTitle]_vars

----------------------------------------------------------------------------
(* Vocabulary of the properties *)
Did(op, res) == \E i \in DOMAIN effects : effects[i].op = op /\ effects[i].res = res
At(op, res) == CHOOSE i \in DOMAIN effects : effects[i].op = op /\ effects[i].res = res
SavedLines == { i \in DOMAIN stdout : stdout[i].kind = "saved" }
KnownFormats == { <<"p","d","f">>, <<"m","a","r","k","d","o","w","n">>, <<"e","p","u","b">> }
CallEnded == pc \in {"raised", "returned", "confirm", "exited"}
Dispatched == entry = "main" /\ pc # "start"
NineChars == {"\\", "/", "*", "?", ":", "\"", "<", ">", "|"}

(* C1: in no terminal state of a conversion call is the browser still open *)
(* or the engine still running.                                            *)
C1_ReleasedOnEveryExit ==
    (CallEnded /\ Did("start", "ok")) => (browser # "open" /\ p # "running")

(* C2: for a format whose lower-cased form is not pdf, markdown or epub,   *)
(* main prints the unsupported-format message and exits with status 1, and *)
(* no engine is started, no browser launched, no print-to-PDF call made and *)
(* no file created.                                                        *)
C2_UnsupportedFormat ==
    (Dispatched /\ lower(output_format) \notin KnownFormats) =>
        /\ pc = "exited"
        /\ exit_status = 1
        /\ stdout = << Line("unsupported", "none", output_format) >>
        /\ p = "none"
        /\ browser = "none"
        /\ pdfArgs = NoPdf
        /\ ~Did("pdf", "ok") /\ ~Did("pdf", "raise") /\ ~Did("start", "ok")
        /\ files = {}

C2_Witness ==
    /\ pc = "exited"
    /\ output_format = <<"D","O","c","x">>
    /\ exit_status = 1

(* C3: a timed-out image wait is not caught: it ends the conversion with    *)
(* the timeout, the print-to-PDF call is never made, no file is written and *)
(* no confirmation is printed; and the print call is made only after        *)
(* navigation, auto-scroll and image wait completed, in that order.         *)
C3_TimeoutAborts ==
    /\ (imageLoadMs >= timeout /\ (Did("wait_for_function", "ok") \/ Did("wait_for_function", "raise"))) =>
            /\ raised = "TimeoutError"
            /\ pc \in {"raised", "exited"}
            /\ pc = "exited" => exit_status = 1
            /\ pdfArgs = NoPdf
            /\ ~Did("pdf", "ok") /\ ~Did("pdf", "raise")
            /\ files = {}
            /\ SavedLines = {}
            /\ output_file = None
    /\ \A k \in DOMAIN effects : effects[k].op = "pdf" =>
            \E g, e, w \in 1..(k - 1) :
                /\ g < e /\ e < w
                /\ effects[g] = E("goto", "ok", <<>>)
                /\ effects[e] = E("evaluate", "ok", <<>>)
                /\ effects[w] = E("wait_for_function", "ok", <<>>)

C3_Witness ==
    /\ raised = "TimeoutError"
    /\ pc = "exited"
    /\ imageLoadMs >= timeout

(* C4: on a successful call the path given to the print call and the path  *)
(* returned are the same value: the output_pdf argument when one was        *)
(* supplied, otherwise the sanitized title followed by ".pdf"; the raw      *)
(* title is not used in the path.                                           *)
C4_OutputPath ==
    output_file # None =>
        /\ pdfArgs.path = output_file
        /\ Did("pdf", "ok") /\ effects[At("pdf", "ok")].arg = output_file
        /\ output_pdf_arg # None => output_file = output_pdf_arg
        /\ output_pdf_arg = None =>
                /\ output_file = safe_title \o <<".", "p", "d", "f">>
                /\ \A i \in DOMAIN output_file : output_file[i] \notin NineChars
                /\ (\E i \in DOMAIN title : title[i] \in NineChars) =>
                        output_file # title \o <<".", "p", "d", "f">>

C4_Witness ==
    /\ pc = "returned"
    /\ output_pdf_arg = None
    /\ title = <<"/", "a">>
    /\ output_file = <<"a", ".", "p", "d", "f">>

(* C5: the sanitized title contains none of the nine characters and is the *)
(* raw title with every occurrence of them deleted: the other characters,   *)
(* all of them, in their order, nothing inserted or replaced.               *)
Kept(t) == { i \in DOMAIN t : t[i] \notin NineChars }
Rank(t, i) == Cardinality({ j \in Kept(t) : j =< i })
C5_Sanitized ==
    safe_title # None =>
        /\ \A k \in DOMAIN safe_title : safe_title[k] \notin NineChars
        /\ Len(safe_title) = Cardinality(Kept(title))
        /\ \A i \in Kept(title) : safe_title[Rank(title, i)] = title[i]
        /\ Kept(title) = DOMAIN title => safe_title = title

C5_Witness ==
    /\ title = <<"\\", ".">>
    /\ safe_title = <<".">>

(* C6: two invocations whose format strings differ only in letter case,    *)
(* on the same page with the same browser behaviour, take the same branch   *)
(* of main, produce the same sequence of effects and end the same way; only *)
(* the echo of the string in the unsupported-format message may differ.     *)
CasePair(a, b) ==
    \E k \in 1..26 : {a, b} = {UpperLetters[k], LowerLetters[k]}
SameUpToCase(s, t) ==
    /\ Len(s) = Len(t)
    /\ \A i \in DOMAIN s : s[i] = t[i] \/ CasePair(s[i], t[i])
EraseEcho(es) ==
    [i \in DOMAIN es |-> IF es[i].op = "print" /\ es[i].res = "unsupported"
                         THEN E("print", "unsupported", <<>>) ELSE es[i]]
C6_CaseInsensitive ==
    (prev # NoRun /\ pc # "start" /\ SameUpToCase(prev.output_format, output_format)) =>
        /\ branch = prev.branch
        /\ pc = "exited" =>
              /\ EraseEcho(effects) = EraseEcho(prev.effects)
              /\ exit_status = prev.exit_status
              /\ raised = prev.raised

C6_Witness ==
    /\ prev # NoRun
    /\ prev.output_format = <<"p","d","f">>
    /\ output_format = <<"P","D","f">>
    /\ pc = "exited"
    /\ exit_status = 0
    /\ Len(effects) > 5

(* C7 as stated: status 1 with a message when the format is unrecognized,  *)
(* and otherwise status 0 after one confirmation line.                     *)
C7_ExitZeroOtherwise ==
    (entry = "main" /\ pc = "exited") =>
        IF lower(output_format) \notin KnownFormats
        THEN exit_status = 1 /\ stdout = << Line("unsupported", "none", output_format) >>
        ELSE exit_status = 0 /\ Cardinality(SavedLines) = 1

(* C7 amended: status 1 with the message when the format is unrecognized;  *)
(* status 0, after exactly one confirmation line carrying the path the      *)
(* exporter returned, exactly when the format is pdf and nothing raised;    *)
(* every other run that ends, ends on an uncaught exception with status 1   *)
(* and without a confirmation line.                                         *)
C7_ExitStatus ==
    /\ Cardinality(SavedLines) =< 1
    /\ SavedLines # {} =>
          /\ output_file # None
          /\ stdout = << Line("saved", "PDF", output_file) >>
          /\ Did("pdf", "ok")
          /\ pc = "exited" /\ exit_status = 0
    /\ (entry = "main" /\ pc = "exited") =>
          /\ exit_status \in {0, 1}
          /\ lower(output_format) \notin KnownFormats =>
                exit_status = 1 /\ stdout = << Line("unsupported", "none", output_format) >>
          /\ exit_status = 0 <=>
                (lower(output_format) = <<"p","d","f">> /\ raised = "none")
          /\ exit_status = 0 => Cardinality(SavedLines) = 1
          /\ (exit_status = 1 /\ lower(output_format) \in KnownFormats) =>
                (raised \in {"NameError", "Error", "TimeoutError"} /\ stdout = <<>>)

C7_Witness ==
    /\ entry = "main"
    /\ pc = "exited"
    /\ exit_status = 0
    /\ title = <<"/", "a">>
    /\ stdout = << Line("saved", "PDF", <<"a", ".", "p", "d", "f">>) >>

(* C8: the Session is released if and only if the print call returned      *)
(* without raising: then the browser is closed, then the engine stopped,    *)
(* after the print call and before the path is returned; when navigation,   *)
(* the auto-scroll, the image wait or the print call raises, neither close  *)
(* nor stop is executed and the exception propagates with the browser open. *)
C8_ReleaseOnlyOnSuccess ==
    /\ (browser = "closed" \/ p = "stopped" \/ Did("close", "ok") \/ Did("stop", "ok")) =>
            /\ Did("pdf", "ok")
            /\ Did("close", "ok") /\ At("pdf", "ok") < At("close", "ok")
            /\ raised = "none"
    /\ p = "stopped" =>
            /\ browser = "closed"
            /\ Did("stop", "ok") /\ At("close", "ok") < At("stop", "ok")
    /\ (Did("pdf", "ok") /\ pc \notin {"close", "stop"}) =>
            (browser = "closed" /\ p = "stopped")
    /\ output_file # None => (browser = "closed" /\ p = "stopped")
    /\ raised \in {"Error", "TimeoutError"} =>
            /\ browser = "open" /\ p = "running"
            /\ ~Did("close", "ok") /\ ~Did("stop", "ok")
            /\ pc \in {"raised", "exited"}
            /\ output_file = None
            /\ pc = "exited" => exit_status = 1

C8_Witness ==
    /\ raised = "Error"
    /\ Did("pdf", "raise")
    /\ browser = "open"
    /\ pc = "raised"

(* C9: for markdown and epub main raises a name error at the call of the   *)
(* missing exporter, before any engine is started or browser launched; no   *)
(* file is written, nothing is printed, and the run does not end through    *)
(* the exit(1) of the unsupported branch.                                   *)
C9_MissingExporter ==
    (Dispatched /\ lower(output_format) \in
            { <<"m","a","r","k","d","o","w","n">>, <<"e","p","u","b">> }) =>
        /\ raised = "NameError"
        /\ pc \in {"raised", "exited"}
        /\ Len(effects) = 1
        /\ effects[1].res = "raise"
        /\ effects[1].op = (IF lower(output_format) = <<"e","p","u","b">>
                            THEN "save_webpage_as_epub" ELSE "save_webpage_as_markdown")
        /\ p = "none" /\ browser = "none" /\ page = "none"
        /\ files = {}
        /\ pdfArgs = NoPdf
        /\ stdout = <<>>
        /\ ~Did("exit", "1")

C9_Witness ==
    /\ output_format = <<"E","P","u","b">>
    /\ raised = "NameError"
    /\ pc = "exited"

(* C10: the auto-scroll returns only when scroll position plus viewport    *)
(* height is no longer less than the scroll height; on a page of fixed      *)
(* height it makes exactly the number of 100-pixel steps that reach the     *)
(* bottom (none when the page fits the viewport); on a page that scrolls    *)
(* and grows by at least the increment on each advance it never returns,    *)
(* and the image wait, the title capture and the print call are not reached.*)
StepsToBottom == (pageHeight - innerHeight + 99) \div 100
C10_AutoScroll ==
    /\ Did("evaluate", "ok") => scrollTop + innerHeight >= scrollHeight
    /\ (pc = "evaluate" /\ failAt # "evaluate"
            /\ scrollTop + innerHeight >= scrollHeight) => ENABLED ScrollExit
    /\ growBy = 0 =>
            /\ scrollSteps =< StepsToBottom
            /\ scrollHeight \in {0, pageHeight}
            /\ Did("evaluate", "ok") => scrollSteps = StepsToBottom
            /\ (pageHeight =< innerHeight) => scrollSteps = 0
    /\ (growBy >= 100 /\ pageHeight > innerHeight) =>
            /\ ~Did("evaluate", "ok")
            /\ ~Did("wait_for_function", "ok") /\ ~Did("wait_for_function", "raise")
            /\ title = None
            /\ pdfArgs = NoPdf
            /\ pc \in {"start", "load", "launch", "new_page", "goto", "evaluate",
                       "raised", "exited"}

C10_Witness ==
    /\ growBy = 0
    /\ pageHeight = innerHeight + 150
    /\ scrollSteps = 2
    /\ pc = "wait"
====
